---- MODULE Spec2Model ----
(***************************************************************************)
(* rkyvdb: a typed access layer (Collection::get / Collection::modify)     *)
(* over a RocksDB handle guarded by one std::sync::Mutex.                  *)
(*                                                                         *)
(* Each process of the model is one call made on the shared Database by    *)
(* some thread of the host program.  A call is split at the points where   *)
(* another thread can observe or change shared state: the mutex            *)
(* acquisition, every engine operation, the modifier and the return that   *)
(* drops the guard.                                                        *)
(*                                                                         *)
(* Options are sequences of length at most one: <<>> is None and <<x>> is  *)
(* Some(x).  Byte strings and keys are sequences of numbers below 256.     *)
(***************************************************************************)
EXTENDS Integers, Sequences, FiniteSets

\* Number of calls made on the handle, each by a thread of its own.
NCalls == 2

Calls == 1..NCalls

None == <<>>

Some(x) == <<x>>

---------------------------------------------------------------------------
\* Key abstraction (lib.rs 26-54)

\* String::to_lowercase on ASCII text: 'A'..'Z' (65..90) become 'a'..'z'.
to_lowercase(s) == [i \in DOMAIN s |-> IF s[i] \in 65..90 THEN s[i] + 32 ELSE s[i]]

\* into without the normalization: the case-insensitive key keeps the
\* caller's letters.
into_verbatim(keytype, k) == IF keytype = "unit" THEN <<>> ELSE k

\* key.into(): the conversion of the caller's key into Self::KeyType.
\* "unit" is (), "str" is str, "ci" is CaseInsensitiveString.
into(keytype, k) ==
    CASE keytype = "unit" -> <<>>
      [] keytype = "str"  -> k
      [] keytype = "ci"   -> to_lowercase(k)

\* Key::serialize: the bytes of the converted key.  The unit key has none;
\* both string keys expose the bytes of the string they hold.
serialize(keytype, key) == IF keytype = "unit" THEN <<>> ELSE key

---------------------------------------------------------------------------
\* Collections: the type-level bindings {KeyType, CF_NAME} (lib.rs 80-89).

Account == [cf |-> "acct", keytype |-> "str"]

Note == [cf |-> "note", keytype |-> "ci"]

Orphan == [cf |-> "orphan", keytype |-> "unit"]

Collections == {Account, Note, Orphan}

\* The keys callers pass: "F" and "f" for the string keys, () for the unit key.
KeyInputs(c) == IF c.keytype = "unit" THEN {<<>>} ELSE {<<70>>, <<102>>}

\* The column families the opened engine holds; "orphan" is not among them.
Partitions == {"acct", "note"}

---------------------------------------------------------------------------
\* Records and the rkyv codec (lib.rs 74-76, 125-127, 133-135).
\* A record has one counter field, archived as two little-endian bytes.

Record(b) == [balance |-> b]

to_bytes(r) == <<r.balance % 256, (r.balance \div 256) % 256>>

from_bytes_unchecked(bytes) == Record(bytes[1] + 256 * bytes[2])

\* Value::deser of the view a get returned.
deser(bytes) == from_bytes_unchecked(bytes)

---------------------------------------------------------------------------
\* The caller's modifiers, FnOnce(&mut Option<Self>) (lib.rs 111, 128).
\*   put    *slot = Some(Record(arg))
\*   clear  *slot = None
\*   add    if let Some(r) = slot { r.balance += arg }
\*   keep   leaves the slot as it is
\*   panic  unwinds out of the closure

Modifier(kind, arg) == [kind |-> kind, arg |-> arg]

Modifiers ==
    {Modifier("put", 300), Modifier("clear", 0), Modifier("add", 50),
     Modifier("keep", 0), Modifier("panic", 0)}

\* |slot| if let Some(r) = slot { r.balance += 1 }
Increment == Modifier("add", 1)

apply(m, slot) ==
    CASE m.kind = "put"   -> Some(Record(m.arg))
      [] m.kind = "clear" -> None
      [] m.kind = "add"   -> IF slot = None THEN None
                             ELSE Some(Record(slot[1].balance + m.arg))
      [] OTHER            -> slot

---------------------------------------------------------------------------
\* State

VARIABLES
    store,     \* rocksdb: column family -> (key bytes -> value bytes)
    mutex,     \* Database.mutex: the call holding the guard (0: none), poison flag
    pc,        \* position of each call
    call,      \* op, collection, converted key and modifier of each call
    value,     \* modify's local `value`: the slot handed to the modifier
    result,    \* what the call returns
    opened,    \* the store as it was when the handle was opened
    written,   \* <<cf, key bytes>> some modify has put, in this run or before
    settled,   \* per entry: the slot left by the modify that last returned Ok
    before,    \* per call: the bytes under its key when it acquired the guard
    saw,       \* per get: what `settled` held for its entry at its lookup
    ops,       \* per call: the lock, engine and modifier operations it has issued
    snap,      \* per call: the store when it acquired the guard
    asked,     \* per call: the key string the caller passed (recorded under SpecCI)
    db,        \* Database: what is at the path, and what Database::new returned
    cfs,       \* the column families the handle reports (rocksdb.cf_handle)
    shadow     \* the opened store with, applied to it, each commit's change to the entry its call addresses

vars ==
    <<store, mutex, pc, call, value, result, opened, written, settled, before, saw, ops, snap, asked, db, cfs, shadow>>

\* rocksdb.cf_handle(name): Some(handle) for a column family of the handle.
cf_handle(name) == IF name \in cfs THEN Some(name) ELSE None

NoCall == [op |-> "none", coll |-> Orphan, key |-> <<>>, modifier |-> Modifier("keep", 0)]

NoResult == [kind |-> "none", val |-> None]

Ok(v) == [kind |-> "Ok", val |-> v]

Err(kind) == [kind |-> kind, val |-> None]

\* The bytes a call addresses in the engine.
skey(t) == serialize(call[t].coll.keytype, call[t].key)

cf(t) == call[t].coll.cf

entry(t) == <<cf(t), skey(t)>>

\* The key bytes a collection can address.
StoredKeys(name) ==
    UNION {{serialize(c.keytype, into(c.keytype, k)) : k \in KeyInputs(c)} :
           c \in {c \in Collections : c.cf = name}}

Entries == UNION {{<<name, k>> : k \in StoredKeys(name)} : name \in Partitions}

\* What rocksdb::DB::open finds at the path: a fresh, empty database, or an
\* existing one whose entries earlier modify calls wrote.
OpenedStores ==
    {[name \in Partitions |-> [k \in {} |-> <<>>]],
     [name \in Partitions |-> [k \in StoredKeys(name) |-> to_bytes(Record(100))]]}

\* rocksdb get_pinned_cf: the bytes under the key, if any.
get_pinned_cf(name, k) == IF k \in DOMAIN store[name] THEN Some(store[name][k]) ELSE None

\* rocksdb put_cf and delete_cf: atomic single-key writes.
put_cf(name, k, bytes) ==
    [store EXCEPT ![name] = [x \in DOMAIN @ \cup {k} |-> IF x = k THEN bytes ELSE @[x]]]

delete_cf(name, k) ==
    [store EXCEPT ![name] = [x \in DOMAIN @ \ {k} |-> @[x]]]

\* The store sh with the entry e, and nothing else, as it is in the store st.
patch(sh, st, e) ==
    [sh EXCEPT ![e[1]] =
        [k \in (DOMAIN sh[e[1]] \ {e[2]}) \cup ({e[2]} \cap DOMAIN st[e[1]]) |->
            IF k = e[2] THEN st[e[1]][k] ELSE sh[e[1]][k]]]

Unknown == [known |-> FALSE, had |-> FALSE, slot |-> None]

\* Database::new: the engine is open, the mutex is free and not poisoned.
Init ==
    /\ store \in OpenedStores
    /\ mutex = [holder |-> 0, poisoned |-> FALSE]
    /\ pc = [t \in Calls |-> "idle"]
    /\ call = [t \in Calls |-> NoCall]
    /\ value = [t \in Calls |-> None]
    /\ result = [t \in Calls |-> NoResult]
    /\ opened = store
    /\ written = {e \in Entries : e[2] \in DOMAIN store[e[1]]}
    /\ settled = [e \in Entries |-> Unknown]
    /\ before = [t \in Calls |-> None]
    /\ saw = [t \in Calls |-> Unknown]
    /\ ops = [t \in Calls |-> <<>>]
    /\ snap = [t \in Calls |-> None]
    /\ asked = [t \in Calls |-> <<>>]
    /\ db = [disk |-> "present", handle |-> "open", error |-> "none"]
    /\ cfs = Partitions
    /\ shadow = store

---------------------------------------------------------------------------
\* Database::new (lib.rs 16-24)

\* The state before Database::new: a store may or may not exist at the path,
\* and no handle has been made.
InitOpen ==
    /\ db \in {[disk |-> d, handle |-> "none", error |-> "none"] : d \in {"missing", "present"}}
    /\ cfs = {}
    /\ store \in (IF db.disk = "present" THEN OpenedStores
                  ELSE {[name \in Partitions |-> [k \in {} |-> <<>>]]})
    /\ mutex = [holder |-> 0, poisoned |-> FALSE]
    /\ pc = [t \in Calls |-> "idle"]
    /\ call = [t \in Calls |-> NoCall]
    /\ value = [t \in Calls |-> None]
    /\ result = [t \in Calls |-> NoResult]
    /\ opened = store
    /\ written = {e \in Entries : e[2] \in DOMAIN store[e[1]]}
    /\ settled = [e \in Entries |-> Unknown]
    /\ before = [t \in Calls |-> None]
    /\ saw = [t \in Calls |-> Unknown]
    /\ ops = [t \in Calls |-> <<>>]
    /\ snap = [t \in Calls |-> None]
    /\ asked = [t \in Calls |-> <<>>]
    /\ shadow = store

\* rocksdb::DB::open(&Options::default(), path)?, Mutex::new(()).  The default
\* options leave create_if_missing off, so the engine refuses a path that
\* holds no store; a store that is there is opened, or the engine fails for
\* a reason of its own.  Which column families the handle then reports is
\* the engine's answer.  Nothing is created, on either outcome.
DatabaseNew ==
    /\ db.handle = "none"
    /\ \/ /\ db.disk = "missing"
          /\ db' = [db EXCEPT !.handle = "error", !.error = "invalid_argument"]
          /\ cfs' = cfs
       \/ /\ db.disk = "present"
          /\ db' = [db EXCEPT !.handle = "open"]
          /\ cfs' \in {{}, Partitions}
       \/ /\ db' = [db EXCEPT !.handle = "error", !.error = "io"]
          /\ cfs' = cfs
    /\ UNCHANGED <<store, mutex, pc, call, value, result, opened, written, settled, before, saw, ops, snap, asked, shadow>>

---------------------------------------------------------------------------
\* Collection::get (lib.rs 91-107)

\* key.into() and cf_handle(CF_NAME).ok_or(CollectionNotRegistered)?
GetResolve(t, c, k) ==
    /\ pc[t] = "idle"
    /\ call' = [call EXCEPT ![t] = [op |-> "get", coll |-> c, key |-> into(c.keytype, k),
                                    modifier |-> Modifier("keep", 0)]]
    /\ IF cf_handle(c.cf) = None
       THEN /\ result' = [result EXCEPT ![t] = Err("CollectionNotRegistered")]
            /\ pc' = [pc EXCEPT ![t] = "done"]
       ELSE /\ pc' = [pc EXCEPT ![t] = "g_lookup"]
            /\ UNCHANGED result
    /\ UNCHANGED <<store, mutex, value, opened, written, settled, before, saw, ops, snap, db, cfs, shadow>>

\* GetLookup by a seek: when the key is absent the lookup lands on another
\* entry of the column family and returns its bytes.
GetLookupSeek(t) ==
    /\ pc[t] = "g_lookup"
    /\ \E found \in (IF skey(t) \in DOMAIN store[cf(t)] \/ DOMAIN store[cf(t)] = {}
                      THEN {get_pinned_cf(cf(t), skey(t))}
                      ELSE {Some(store[cf(t)][x]) : x \in DOMAIN store[cf(t)]}) :
          result' = [result EXCEPT ![t] = Ok(found)]
    /\ saw' = [saw EXCEPT ![t] = settled[entry(t)]]
    /\ pc' = [pc EXCEPT ![t] = "done"]
    /\ ops' = [ops EXCEPT ![t] = Append(@, "get_pinned_cf")]
    /\ UNCHANGED <<store, mutex, call, value, opened, written, settled, before, snap, asked, db, cfs, shadow>>

\* GetLookup under the mutex: the lookup waits until no call holds the guard.
GetLookupLocked(t) ==
    /\ pc[t] = "g_lookup"
    /\ mutex.holder = 0
    /\ result' = [result EXCEPT ![t] = Ok(get_pinned_cf(cf(t), skey(t)))]
    /\ saw' = [saw EXCEPT ![t] = settled[entry(t)]]
    /\ pc' = [pc EXCEPT ![t] = "done"]
    /\ ops' = [ops EXCEPT ![t] = Append(@, "get_pinned_cf")]
    /\ UNCHANGED <<store, mutex, call, value, opened, written, settled, before, snap, asked, db, cfs, shadow>>

\* get_pinned_cf answered: Ok(Some(Value {bytes})) or Ok(None).
GetLookup(t) ==
    /\ pc[t] = "g_lookup"
    /\ result' = [result EXCEPT ![t] = Ok(get_pinned_cf(cf(t), skey(t)))]
    /\ saw' = [saw EXCEPT ![t] = settled[entry(t)]]
    /\ pc' = [pc EXCEPT ![t] = "done"]
    /\ ops' = [ops EXCEPT ![t] = Append(@, "get_pinned_cf")]
    /\ UNCHANGED <<store, mutex, call, value, opened, written, settled, before, snap, asked, db, cfs, shadow>>

\* get_pinned_cf failed: `?` returns Err(RocksDB).
GetLookupErr(t) ==
    /\ pc[t] = "g_lookup"
    /\ result' = [result EXCEPT ![t] = Err("RocksDB")]
    /\ pc' = [pc EXCEPT ![t] = "done"]
    /\ ops' = [ops EXCEPT ![t] = Append(@, "get_pinned_cf_err")]
    /\ UNCHANGED <<store, mutex, call, value, opened, written, settled, before, saw, snap, asked, db, cfs, shadow>>

---------------------------------------------------------------------------
\* Collection::modify (lib.rs 109-141)

\* ModifyResolve without ok_or: the missing column family surfaces as an
\* engine error.
ModifyResolveEngineError(t, c, k, m) ==
    /\ pc[t] = "idle"
    /\ call' = [call EXCEPT ![t] = [op |-> "modify", coll |-> c, key |-> into(c.keytype, k),
                                    modifier |-> m]]
    /\ IF cf_handle(c.cf) = None
       THEN /\ result' = [result EXCEPT ![t] = Err("RocksDB")]
            /\ pc' = [pc EXCEPT ![t] = "done"]
       ELSE /\ pc' = [pc EXCEPT ![t] = "m_lock"]
            /\ UNCHANGED result
    /\ UNCHANGED <<store, mutex, value, opened, written, settled, before, saw, ops, snap, db, cfs, shadow>>

\* A resolve that registers the collection's column family when the handle
\* does not have it.
ModifyResolveCreate(t, c, k, m) ==
    /\ pc[t] = "idle"
    /\ call' = [call EXCEPT ![t] = [op |-> "modify", coll |-> c, key |-> into(c.keytype, k),
                                    modifier |-> m]]
    /\ cfs' = cfs \cup {c.cf}
    /\ store' = [name \in DOMAIN store \cup {c.cf} |->
                    IF name \in DOMAIN store THEN store[name] ELSE [x \in {} |-> <<>>]]
    /\ pc' = [pc EXCEPT ![t] = "m_lock"]
    /\ UNCHANGED <<mutex, value, result, opened, written, settled, before, saw, ops, snap, db, shadow>>

\* A resolve that takes the mutex before it looks the column family up.
ModifyResolveLockFirst(t, c, k, m) ==
    /\ pc[t] = "idle"
    /\ mutex.holder = 0
    /\ call' = [call EXCEPT ![t] = [op |-> "modify", coll |-> c, key |-> into(c.keytype, k),
                                    modifier |-> m]]
    /\ IF cf_handle(c.cf) = None
       THEN /\ result' = [result EXCEPT ![t] = Err("CollectionNotRegistered")]
            /\ pc' = [pc EXCEPT ![t] = "done"]
            /\ ops' = [ops EXCEPT ![t] = Append(@, "lock")]
       ELSE /\ pc' = [pc EXCEPT ![t] = "m_lock"]
            /\ UNCHANGED <<result, ops>>
    /\ UNCHANGED <<store, mutex, value, opened, written, settled, before, saw, snap, db, cfs, shadow>>

\* cf_handle(CF_NAME).ok_or(CollectionNotRegistered)?, key.into(), serialize.
ModifyResolve(t, c, k, m) ==
    /\ pc[t] = "idle"
    /\ call' = [call EXCEPT ![t] = [op |-> "modify", coll |-> c, key |-> into(c.keytype, k),
                                    modifier |-> m]]
    /\ IF cf_handle(c.cf) = None
       THEN /\ result' = [result EXCEPT ![t] = Err("CollectionNotRegistered")]
            /\ pc' = [pc EXCEPT ![t] = "done"]
       ELSE /\ pc' = [pc EXCEPT ![t] = "m_lock"]
            /\ UNCHANGED result
    /\ UNCHANGED <<store, mutex, value, opened, written, settled, before, saw, ops, snap, db, cfs, shadow>>

\* ModifyLock without the wait: the guard is handed out while another call
\* holds it.
ModifyLockNoWait(t) ==
    /\ pc[t] = "m_lock"
    /\ IF mutex.poisoned
       THEN /\ result' = [result EXCEPT ![t] = Err("Panic")]
            /\ pc' = [pc EXCEPT ![t] = "done"]
            /\ UNCHANGED <<mutex, before>>
       ELSE /\ mutex' = [mutex EXCEPT !.holder = t]
            /\ before' = [before EXCEPT ![t] = get_pinned_cf(cf(t), skey(t))]
            /\ pc' = [pc EXCEPT ![t] = "m_lookup"]
            /\ UNCHANGED result
    /\ ops' = [ops EXCEPT ![t] = Append(@, IF mutex.poisoned THEN "lock_poisoned" ELSE "lock")]
    /\ snap' = IF mutex.poisoned THEN snap ELSE [snap EXCEPT ![t] = store]
    /\ UNCHANGED <<store, call, value, opened, written, settled, saw, asked, db, cfs, shadow>>

\* A lock that takes a poisoned mutex as if it were sound.
ModifyLockIgnorePoison(t) ==
    /\ pc[t] = "m_lock"
    /\ mutex.holder = 0
    /\ mutex' = [mutex EXCEPT !.holder = t]
    /\ before' = [before EXCEPT ![t] = get_pinned_cf(cf(t), skey(t))]
    /\ pc' = [pc EXCEPT ![t] = "m_lookup"]
    /\ ops' = [ops EXCEPT ![t] = Append(@, "lock")]
    /\ snap' = [snap EXCEPT ![t] = store]
    /\ UNCHANGED <<store, call, value, result, opened, written, settled, saw, asked, db, cfs, shadow>>

\* db.mutex.lock().unwrap(): blocks while another call holds the guard; on a
\* poisoned mutex lock() returns Err and unwrap panics, dropping the guard.
ModifyLock(t) ==
    /\ pc[t] = "m_lock"
    /\ mutex.holder = 0
    /\ IF mutex.poisoned
       THEN /\ result' = [result EXCEPT ![t] = Err("Panic")]
            /\ pc' = [pc EXCEPT ![t] = "done"]
            /\ UNCHANGED <<mutex, before>>
       ELSE /\ mutex' = [mutex EXCEPT !.holder = t]
            /\ before' = [before EXCEPT ![t] = get_pinned_cf(cf(t), skey(t))]
            /\ pc' = [pc EXCEPT ![t] = "m_lookup"]
            /\ UNCHANGED result
    /\ ops' = [ops EXCEPT ![t] = Append(@, IF mutex.poisoned THEN "lock_poisoned" ELSE "lock")]
    /\ snap' = IF mutex.poisoned THEN snap ELSE [snap EXCEPT ![t] = store]
    /\ UNCHANGED <<store, call, value, opened, written, settled, saw, asked, db, cfs, shadow>>

\* .map(|v| from_bytes_unchecked::<Self>(&v)) on the lookup's Option.
materialize(found) == IF found = None THEN None ELSE Some(from_bytes_unchecked(found[1]))

\* ModifyLookup that takes the entry out of the engine while it materializes
\* it, leaving the key absent until the commit.
ModifyLookupTake(t) ==
    /\ pc[t] = "m_lookup"
    /\ value' = [value EXCEPT ![t] = materialize(get_pinned_cf(cf(t), skey(t)))]
    /\ store' = delete_cf(cf(t), skey(t))
    /\ pc' = [pc EXCEPT ![t] = "m_modifier"]
    /\ ops' = [ops EXCEPT ![t] = Append(@, "get_pinned_cf")]
    /\ UNCHANGED <<mutex, call, result, opened, written, settled, before, saw, snap, asked, db, cfs, shadow>>

\* ModifyLookup that drops what it found: the modifier always gets an empty
\* slot.
ModifyLookupBlank(t) ==
    /\ pc[t] = "m_lookup"
    /\ value' = [value EXCEPT ![t] = None]
    /\ pc' = [pc EXCEPT ![t] = "m_modifier"]
    /\ ops' = [ops EXCEPT ![t] = Append(@, "get_pinned_cf")]
    /\ UNCHANGED <<store, mutex, call, result, opened, written, settled, before, saw, snap, asked, db, cfs, shadow>>

\* get_pinned_cf answered: the bytes, if any, are materialized into `value`.
ModifyLookup(t) ==
    /\ pc[t] = "m_lookup"
    /\ value' = [value EXCEPT ![t] = materialize(get_pinned_cf(cf(t), skey(t)))]
    /\ pc' = [pc EXCEPT ![t] = "m_modifier"]
    /\ ops' = [ops EXCEPT ![t] = Append(@, "get_pinned_cf")]
    /\ UNCHANGED <<store, mutex, call, result, opened, written, settled, before, saw, snap, asked, db, cfs, shadow>>

\* ModifyLookupErr that leaves without dropping the guard.
ModifyLookupErrLeak(t) ==
    /\ pc[t] = "m_lookup"
    /\ result' = [result EXCEPT ![t] = Err("RocksDB")]
    /\ before' = [before EXCEPT ![t] = None]
    /\ pc' = [pc EXCEPT ![t] = "done"]
    /\ ops' = [ops EXCEPT ![t] = Append(@, "get_pinned_cf_err")]
    /\ snap' = [snap EXCEPT ![t] = None]
    /\ UNCHANGED <<store, mutex, call, value, opened, written, settled, saw, asked, db, cfs, shadow>>

\* get_pinned_cf failed: `?` leaves with Err(RocksDB); the guard is dropped
\* by the return.
\* A failed lookup taken for an absent key: the call goes on to the modifier.
ModifyLookupErrAsAbsent(t) ==
    /\ pc[t] = "m_lookup"
    /\ value' = [value EXCEPT ![t] = None]
    /\ before' = [before EXCEPT ![t] = None]
    /\ pc' = [pc EXCEPT ![t] = "m_modifier"]
    /\ ops' = [ops EXCEPT ![t] = Append(@, "get_pinned_cf_err")]
    /\ UNCHANGED <<store, mutex, call, result, opened, written, settled, saw, snap, asked, db, cfs, shadow>>

ModifyLookupErr(t) ==
    /\ pc[t] = "m_lookup"
    /\ result' = [result EXCEPT ![t] = Err("RocksDB")]
    /\ pc' = [pc EXCEPT ![t] = "m_return"]
    /\ ops' = [ops EXCEPT ![t] = Append(@, "get_pinned_cf_err")]
    /\ UNCHANGED <<store, mutex, call, value, opened, written, settled, before, saw, snap, asked, db, cfs, shadow>>

\* modifier(&mut value) returns.
ModifyModifier(t) ==
    /\ pc[t] = "m_modifier"
    /\ call[t].modifier.kind \in {"put", "clear", "add", "keep"}
    /\ value' = [value EXCEPT ![t] = apply(call[t].modifier, value[t])]
    /\ pc' = [pc EXCEPT ![t] = "m_commit"]
    /\ ops' = [ops EXCEPT ![t] = Append(@, "modifier")]
    /\ UNCHANGED <<store, mutex, call, result, opened, written, settled, before, saw, snap, asked, db, cfs, shadow>>

\* modifier(&mut value) panics: unwinding drops the guard, which poisons
\* the mutex.
ModifyModifierPanic(t) ==
    /\ pc[t] = "m_modifier"
    /\ call[t].modifier.kind = "panic"
    /\ mutex' = [holder |-> IF mutex.holder = t THEN 0 ELSE mutex.holder, poisoned |-> TRUE]
    /\ result' = [result EXCEPT ![t] = Err("Panic")]
    /\ value' = [value EXCEPT ![t] = None]
    /\ before' = [before EXCEPT ![t] = None]
    /\ pc' = [pc EXCEPT ![t] = "done"]
    /\ ops' = [ops EXCEPT ![t] = Append(@, "modifier_panic")]
    /\ UNCHANGED <<store, call, opened, written, settled, saw, snap, asked, db, cfs, shadow>>

\* ModifyCommit that only overwrites: a record left in the slot of an absent
\* key is not stored.
ModifyCommitUpdateOnly(t) ==
    /\ pc[t] = "m_commit"
    /\ store' = IF value[t] # None
                THEN IF skey(t) \in DOMAIN store[cf(t)]
                     THEN put_cf(cf(t), skey(t), to_bytes(value[t][1]))
                     ELSE store
                ELSE delete_cf(cf(t), skey(t))
    /\ written' = IF value[t] # None THEN written \cup {entry(t)} ELSE written
    /\ settled' = [settled EXCEPT ![entry(t)] =
                      [known |-> FALSE, had |-> skey(t) \in DOMAIN store[cf(t)],
                       slot |-> value[t]]]
    /\ result' = [result EXCEPT ![t] = Ok(None)]
    /\ pc' = [pc EXCEPT ![t] = "m_return"]
    /\ ops' = [ops EXCEPT ![t] = Append(@, IF value[t] # None THEN "put_cf" ELSE "delete_cf")]
    /\ shadow' = patch(shadow, store', entry(t))
    /\ UNCHANGED <<mutex, call, value, opened, before, saw, snap, asked, db, cfs>>

\* ModifyCommit without the else branch: an emptied slot deletes nothing.
ModifyCommitNoDelete(t) ==
    /\ pc[t] = "m_commit"
    /\ store' = IF value[t] # None
                THEN put_cf(cf(t), skey(t), to_bytes(value[t][1]))
                ELSE store
    /\ written' = IF value[t] # None THEN written \cup {entry(t)} ELSE written
    /\ settled' = [settled EXCEPT ![entry(t)] =
                      [known |-> FALSE, had |-> skey(t) \in DOMAIN store[cf(t)],
                       slot |-> value[t]]]
    /\ result' = [result EXCEPT ![t] = Ok(None)]
    /\ pc' = [pc EXCEPT ![t] = "m_return"]
    /\ ops' = [ops EXCEPT ![t] = Append(@, IF value[t] # None THEN "put_cf" ELSE "delete_cf")]
    /\ shadow' = patch(shadow, store', entry(t))
    /\ UNCHANGED <<mutex, call, value, opened, before, saw, snap, asked, db, cfs>>

\* ModifyCommit that skips the engine when the modifier left the slot as the
\* lookup found it.
ModifyCommitSkipUnchanged(t) ==
    /\ pc[t] = "m_commit"
    /\ store' = IF value[t] = materialize(before[t]) THEN store
                ELSE IF value[t] # None
                     THEN put_cf(cf(t), skey(t), to_bytes(value[t][1]))
                     ELSE delete_cf(cf(t), skey(t))
    /\ written' = IF value[t] # None THEN written \cup {entry(t)} ELSE written
    /\ settled' = [settled EXCEPT ![entry(t)] =
                      [known |-> FALSE, had |-> skey(t) \in DOMAIN store[cf(t)],
                       slot |-> value[t]]]
    /\ result' = [result EXCEPT ![t] = Ok(None)]
    /\ pc' = [pc EXCEPT ![t] = "m_return"]
    /\ ops' = IF value[t] = materialize(before[t]) THEN ops
              ELSE [ops EXCEPT ![t] = Append(@, IF value[t] # None THEN "put_cf" ELSE "delete_cf")]
    /\ shadow' = patch(shadow, store', entry(t))
    /\ UNCHANGED <<mutex, call, value, opened, before, saw, snap, asked, db, cfs>>

\* put_cf of the serialized record, or delete_cf when the slot is empty.
\* A commit whose delete empties the whole column family.
ModifyCommitWipe(t) ==
    /\ pc[t] = "m_commit"
    /\ store' = IF value[t] # None
                THEN put_cf(cf(t), skey(t), to_bytes(value[t][1]))
                ELSE [store EXCEPT ![cf(t)] = [x \in {} |-> <<>>]]
    /\ written' = IF value[t] # None THEN written \cup {entry(t)} ELSE written
    /\ settled' = [settled EXCEPT ![entry(t)] =
                      [known |-> FALSE, had |-> skey(t) \in DOMAIN store[cf(t)],
                       slot |-> value[t]]]
    /\ result' = [result EXCEPT ![t] = Ok(None)]
    /\ pc' = [pc EXCEPT ![t] = "m_return"]
    /\ ops' = [ops EXCEPT ![t] = Append(@, IF value[t] # None THEN "put_cf" ELSE "delete_cf")]
    /\ shadow' = patch(shadow, store', entry(t))
    /\ UNCHANGED <<mutex, call, value, opened, before, saw, snap, asked, db, cfs>>

ModifyCommit(t) ==
    /\ pc[t] = "m_commit"
    /\ store' = IF value[t] # None
                THEN put_cf(cf(t), skey(t), to_bytes(value[t][1]))
                ELSE delete_cf(cf(t), skey(t))
    /\ written' = IF value[t] # None THEN written \cup {entry(t)} ELSE written
    /\ settled' = [settled EXCEPT ![entry(t)] =
                      [known |-> FALSE, had |-> skey(t) \in DOMAIN store[cf(t)],
                       slot |-> value[t]]]
    /\ result' = [result EXCEPT ![t] = Ok(None)]
    /\ pc' = [pc EXCEPT ![t] = "m_return"]
    /\ ops' = [ops EXCEPT ![t] = Append(@, IF value[t] # None THEN "put_cf" ELSE "delete_cf")]
    /\ shadow' = patch(shadow, store', entry(t))
    /\ UNCHANGED <<mutex, call, value, opened, before, saw, snap, asked, db, cfs>>

\* put_cf or delete_cf failed: `?` leaves with Err(RocksDB), nothing written.
ModifyCommitErr(t) ==
    /\ pc[t] = "m_commit"
    /\ result' = [result EXCEPT ![t] = Err("RocksDB")]
    /\ pc' = [pc EXCEPT ![t] = "m_return"]
    /\ ops' = [ops EXCEPT ![t] = Append(@, IF value[t] # None THEN "put_cf_err" ELSE "delete_cf_err")]
    /\ UNCHANGED <<store, mutex, call, value, opened, written, settled, before, saw, snap, asked, db, cfs, shadow>>

\* The function returns and `_guard` goes out of scope.
ModifyReturn(t) ==
    /\ pc[t] = "m_return"
    /\ mutex' = [mutex EXCEPT !.holder = IF @ = t THEN 0 ELSE @]
    /\ settled' = IF result[t].kind = "Ok"
                  THEN [settled EXCEPT ![entry(t)] = [@ EXCEPT !.known = TRUE]]
                  ELSE settled
    /\ value' = [value EXCEPT ![t] = None]
    /\ before' = [before EXCEPT ![t] = None]
    /\ pc' = [pc EXCEPT ![t] = "done"]
    /\ ops' = [ops EXCEPT ![t] = <<>>]
    /\ snap' = [snap EXCEPT ![t] = None]
    /\ UNCHANGED <<store, call, result, opened, written, saw, asked, db, cfs, shadow>>

---------------------------------------------------------------------------
\* Modifiers that call back into the same handle (lib.rs 128, then 109-141 or
\* 91-107 from inside the closure).

NestedModify == Modifier("nested_modify", 0)

NestedGet == Modifier("nested_get", 0)

\* The modifier calls modify on a registered collection: the inner call
\* resolves its column family and key and arrives at db.mutex.lock().
NestedModifyResolve(t) ==
    /\ pc[t] = "m_modifier"
    /\ call[t].modifier = NestedModify
    /\ cf_handle(cf(t)) # None
    /\ pc' = [pc EXCEPT ![t] = "n_lock"]
    /\ ops' = [ops EXCEPT ![t] = Append(@, "modifier_entered")]
    /\ UNCHANGED <<store, mutex, call, value, result, opened, written, settled, before, saw, snap, asked, db, cfs, shadow>>

\* A mutex that lets its holder in again: the inner modify runs through and
\* the modifier returns.
NestedModifyLockReentrant(t) ==
    /\ pc[t] = "n_lock"
    /\ mutex.holder = t
    /\ pc' = [pc EXCEPT ![t] = "m_commit"]
    /\ ops' = [ops EXCEPT ![t] = Append(@, "modifier")]
    /\ UNCHANGED <<store, mutex, call, value, result, opened, written, settled, before, saw, snap, asked, db, cfs, shadow>>

\* The inner db.mutex.lock() in the thread that holds the guard.  The
\* standard library leaves the outcome open save that the call does not
\* return: the thread blocks forever, or lock() panics, and the unwinding
\* through the outer modify drops the guard and poisons the mutex.
NestedModifyLock(t) ==
    /\ pc[t] = "n_lock"
    /\ mutex.holder = t
    /\ \/ /\ pc' = [pc EXCEPT ![t] = "n_deadlock"]
          /\ ops' = [ops EXCEPT ![t] = Append(@, "lock_blocked")]
          /\ UNCHANGED <<mutex, result, value, before, snap>>
       \/ /\ mutex' = [holder |-> 0, poisoned |-> TRUE]
          /\ result' = [result EXCEPT ![t] = Err("Panic")]
          /\ value' = [value EXCEPT ![t] = None]
          /\ before' = [before EXCEPT ![t] = None]
          /\ pc' = [pc EXCEPT ![t] = "done"]
          /\ ops' = [ops EXCEPT ![t] = Append(@, "lock_panic")]
          /\ snap' = [snap EXCEPT ![t] = None]
    /\ UNCHANGED <<store, call, opened, written, settled, saw, asked, db, cfs, shadow>>

\* The modifier calls get: the inner call resolves its column family and key;
\* get takes no lock.
NestedGetResolve(t) ==
    /\ pc[t] = "m_modifier"
    /\ call[t].modifier = NestedGet
    /\ cf_handle(cf(t)) # None
    /\ pc' = [pc EXCEPT ![t] = "n_lookup"]
    /\ ops' = [ops EXCEPT ![t] = Append(@, "modifier_entered")]
    /\ UNCHANGED <<store, mutex, call, value, result, opened, written, settled, before, saw, snap, asked, db, cfs, shadow>>

\* The inner get's get_pinned_cf answers, get returns Ok and the modifier
\* returns, leaving the slot as it was handed to it.
NestedGetLookup(t) ==
    /\ pc[t] = "n_lookup"
    /\ pc' = [pc EXCEPT ![t] = "m_commit"]
    /\ ops' = [ops EXCEPT ![t] = Append(Append(@, "get_pinned_cf_inner"), "modifier")]
    /\ UNCHANGED <<store, mutex, call, value, result, opened, written, settled, before, saw, snap, asked, db, cfs, shadow>>

\* The inner get's get_pinned_cf fails, get returns the store error and the
\* modifier returns all the same.
NestedGetLookupErr(t) ==
    /\ pc[t] = "n_lookup"
    /\ pc' = [pc EXCEPT ![t] = "m_commit"]
    /\ ops' = [ops EXCEPT ![t] = Append(Append(@, "get_pinned_cf_inner_err"), "modifier")]
    /\ UNCHANGED <<store, mutex, call, value, result, opened, written, settled, before, saw, snap, asked, db, cfs, shadow>>

---------------------------------------------------------------------------

Next ==
    \/ \E t \in Calls, c \in Collections :
          \E k \in KeyInputs(c) : GetResolve(t, c, k) /\ UNCHANGED asked
    \/ \E t \in Calls : GetLookup(t)
    \/ \E t \in Calls : GetLookupErr(t)
    \/ \E t \in Calls, c \in Collections, m \in Modifiers :
          \E k \in KeyInputs(c) : ModifyResolve(t, c, k, m) /\ UNCHANGED asked
    \/ \E t \in Calls : ModifyLock(t)
    \/ \E t \in Calls : ModifyLookup(t)
    \/ \E t \in Calls : ModifyLookupErr(t)
    \/ \E t \in Calls : ModifyModifier(t)
    \/ \E t \in Calls : ModifyModifierPanic(t)
    \/ \E t \in Calls : ModifyCommit(t)
    \/ \E t \in Calls : ModifyCommitErr(t)
    \/ \E t \in Calls : ModifyReturn(t)

Spec == Init /\ [][Next]_vars

\* Every call is a modify whose modifier increments the counter; no modifier
\* panics.
NextInc ==
    \/ \E t \in Calls, c \in Collections :
          \E k \in KeyInputs(c) : ModifyResolve(t, c, k, Increment) /\ UNCHANGED asked
    \/ \E t \in Calls : ModifyLock(t)
    \/ \E t \in Calls : ModifyLookup(t)
    \/ \E t \in Calls : ModifyLookupErr(t)
    \/ \E t \in Calls : ModifyModifier(t)
    \/ \E t \in Calls : ModifyCommit(t)
    \/ \E t \in Calls : ModifyCommitErr(t)
    \/ \E t \in Calls : ModifyReturn(t)

SpecInc == Init /\ [][NextInc]_vars

\* Every call is a get or a modify of the collection with the case-normalized
\* key; the key the caller passed is recorded.
NextCI ==
    \/ \E t \in Calls, k \in KeyInputs(Note) :
          GetResolve(t, Note, k) /\ asked' = [asked EXCEPT ![t] = k]
    \/ \E t \in Calls : GetLookup(t)
    \/ \E t \in Calls : GetLookupErr(t)
    \/ \E t \in Calls, k \in KeyInputs(Note), m \in Modifiers :
          ModifyResolve(t, Note, k, m) /\ asked' = [asked EXCEPT ![t] = k]
    \/ \E t \in Calls : ModifyLock(t)
    \/ \E t \in Calls : ModifyLookup(t)
    \/ \E t \in Calls : ModifyLookupErr(t)
    \/ \E t \in Calls : ModifyModifier(t)
    \/ \E t \in Calls : ModifyModifierPanic(t)
    \/ \E t \in Calls : ModifyCommit(t)
    \/ \E t \in Calls : ModifyCommitErr(t)
    \/ \E t \in Calls : ModifyReturn(t)

SpecCI == Init /\ [][NextCI]_vars

\* Database::new, and then gets through the handle it returned.
NextOpen ==
    \/ DatabaseNew
    \/ \E t \in Calls, c \in Collections :
          \E k \in KeyInputs(c) :
              db.handle = "open" /\ GetResolve(t, c, k) /\ UNCHANGED asked
    \/ \E t \in Calls : GetLookup(t)
    \/ \E t \in Calls : GetLookupErr(t)

SpecOpen == InitOpen /\ [][NextOpen]_vars

\* Modifiers that return: one that stores and one that deletes.
Returning == {Modifier("put", 300), Modifier("clear", 0)}

\* Calls on one registered collection and on the unregistered one, with
\* modifiers that return.
NextLive ==
    \/ \E t \in Calls, c \in {Account, Orphan} :
          \E k \in KeyInputs(c) : GetResolve(t, c, k) /\ UNCHANGED asked
    \/ \E t \in Calls : GetLookup(t)
    \/ \E t \in Calls : GetLookupErr(t)
    \/ \E t \in Calls, c \in {Account, Orphan}, m \in Returning :
          \E k \in KeyInputs(c) : ModifyResolve(t, c, k, m) /\ UNCHANGED asked
    \/ \E t \in Calls : ModifyLock(t)
    \/ \E t \in Calls : ModifyLookup(t)
    \/ \E t \in Calls : ModifyLookupErr(t)
    \/ \E t \in Calls : ModifyModifier(t)
    \/ \E t \in Calls : ModifyCommit(t)
    \/ \E t \in Calls : ModifyCommitErr(t)
    \/ \E t \in Calls : ModifyReturn(t)

\* The steps of a call once it has been made.  The engine answers (with a
\* value or a failure), the modifier returns, and a call that can take the
\* mutex is not passed over forever.
Step(t) ==
    \/ GetLookup(t) \/ GetLookupErr(t)
    \/ ModifyLock(t)
    \/ ModifyLookup(t) \/ ModifyLookupErr(t)
    \/ ModifyModifier(t)
    \/ ModifyCommit(t) \/ ModifyCommitErr(t)
    \/ ModifyReturn(t)

\* Modifies of one collection whose modifiers call back into the handle, or
\* store a record.
NextNested ==
    \/ \E t \in Calls, m \in {NestedModify, NestedGet, Modifier("put", 300)} :
          \E k \in KeyInputs(Account) : ModifyResolve(t, Account, k, m) /\ UNCHANGED asked
    \/ \E t \in Calls : ModifyLock(t)
    \/ \E t \in Calls : ModifyLookup(t)
    \/ \E t \in Calls : ModifyLookupErr(t)
    \/ \E t \in Calls : ModifyModifier(t)
    \/ \E t \in Calls : NestedModifyResolve(t)
    \/ \E t \in Calls : NestedModifyLock(t)
    \/ \E t \in Calls : NestedGetResolve(t)
    \/ \E t \in Calls : NestedGetLookup(t)
    \/ \E t \in Calls : NestedGetLookupErr(t)
    \/ \E t \in Calls : ModifyCommit(t)
    \/ \E t \in Calls : ModifyCommitErr(t)
    \/ \E t \in Calls : ModifyReturn(t)

SpecNested == Init /\ [][NextNested]_vars

SpecLive == Init /\ [][NextLive]_vars /\ \A t \in Calls : WF_vars(Step(t))

---------------------------------------------------------------------------
\* Properties

\* The call is between its acquisition of the guard and its return: its
\* lookup, its modifier and its put or delete happen here.
InGuard(t) == pc[t] \in {"m_lookup", "m_modifier", "m_commit", "m_return"}

\* C1: the read-modifier-write sequences of two modify calls on the handle
\* never interleave, whatever their collections and keys: no two calls are
\* between lookup and return at once, and the one that is holds the guard.
C1_ModifySequencesDoNotInterleave ==
    \A a \in Calls : InGuard(a) =>
        /\ mutex.holder = a
        /\ \A b \in Calls \ {a} : ~InGuard(b)

\* A modify on one collection is past its lookup while a modify on another
\* collection waits for the guard.
C1_Witness ==
    \E a \in Calls, b \in Calls :
        /\ pc[a] = "m_modifier" /\ pc[b] = "m_lock"
        /\ cf(a) # cf(b)

\* C2: when every call is a modify incrementing the counter of the same
\* stored record and all have returned Ok, the stored counter is the counter
\* found at open plus the number of calls.
C2_IncrementsAllCounted ==
    \A e \in Entries :
        (/\ e[2] \in DOMAIN opened[e[1]]
         /\ \A t \in Calls : /\ pc[t] = "done"
                             /\ call[t].op = "modify"
                             /\ call[t].modifier = Increment
                             /\ entry(t) = e
                             /\ result[t].kind = "Ok")
        => /\ e[2] \in DOMAIN store[e[1]]
           /\ deser(store[e[1]][e[2]]).balance = deser(opened[e[1]][e[2]]).balance + NCalls

\* All the increments of one stored counter have returned Ok.
C2_Witness ==
    \E e \in Entries :
        /\ e[2] \in DOMAIN opened[e[1]]
        /\ \A t \in Calls : /\ pc[t] = "done"
                            /\ call[t].modifier = Increment
                            /\ entry(t) = e
                            /\ result[t].kind = "Ok"

\* A get of a registered collection that the engine answered.
GetReturnedOk(g) ==
    /\ pc[g] = "done"
    /\ call[g].op = "get"
    /\ result[g].kind = "Ok"

\* C3: once a modify of K whose modifier left record R in the slot has
\* returned Ok, and no other modify has written K since, a get of K that the
\* engine answers returns Some view whose deser is R, whether K was present
\* or absent before that modify.
C3_GetReturnsRecordLeftByModify ==
    \A g \in Calls :
        (GetReturnedOk(g) /\ saw[g].known /\ saw[g].slot # None)
        => /\ result[g].val # None
           /\ deser(result[g].val[1]) = saw[g].slot[1]

\* A get returned the record 300 that a returned modify inserted under an
\* absent key.
C3_Witness ==
    \E g \in Calls :
        /\ GetReturnedOk(g)
        /\ saw[g] = [known |-> TRUE, had |-> FALSE, slot |-> Some(Record(300))]
        /\ result[g].val = Some(to_bytes(Record(300)))

\* C4: once a modify of an existing key K whose modifier emptied the slot has
\* returned Ok, and no other modify has written K since, a get of K that the
\* engine answers returns None.
C4_GetReturnsNoneAfterDelete ==
    \A g \in Calls :
        (GetReturnedOk(g) /\ saw[g].known /\ saw[g].had /\ saw[g].slot = None)
        => result[g].val = None

\* A get returned None for a key that was present until a returned modify
\* emptied its slot.
C4_Witness ==
    \E g \in Calls :
        /\ GetReturnedOk(g)
        /\ saw[g] = [known |-> TRUE, had |-> TRUE, slot |-> None]
        /\ entry(g)[2] \in DOMAIN opened[entry(g)[1]]
        /\ result[g].val = None

\* C5: a get of a key of a registered collection that no modify has ever
\* written returns Ok(None) when the engine answers, whatever calls ran on
\* other keys and collections.
C5_NeverWrittenKeyIsAbsent ==
    \A g \in Calls :
        (GetReturnedOk(g) /\ entry(g) \notin written) => result[g] = Ok(None)

\* A get of a never written key returned Ok(None) although other entries
\* have been written.
C5_Witness ==
    \E g \in Calls :
        /\ GetReturnedOk(g)
        /\ entry(g) \notin written
        /\ \E e \in written : e[1] = entry(g)[1]
        /\ result[g] = Ok(None)

\* C6: a get or modify of a collection whose partition the engine does not
\* hold ends at once with CollectionNotRegistered, never with a store error.
C6_UnregisteredIsNotRegisteredError ==
    \A t \in Calls :
        (call[t].op # "none" /\ cf(t) \notin Partitions)
        => /\ pc[t] = "done"
           /\ result[t] = Err("CollectionNotRegistered")

\* A get and a modify of the unregistered collection both returned the error.
C6_Witness ==
    \E g \in Calls, m \in Calls :
        /\ call[g].op = "get" /\ call[m].op = "modify"
        /\ cf(g) \notin Partitions /\ cf(m) \notin Partitions
        /\ result[g].kind = "CollectionNotRegistered"
        /\ result[m].kind = "CollectionNotRegistered"

\* C7: the guard is released on every exit of modify: a call that is not
\* between its acquisition and its return does not hold the mutex, and the
\* step that ends a modify with Ok or a store error (of the lookup, the put
\* or the delete) leaves the mutex free and not poisoned, so that a later
\* modify acquires it.
C7_GuardReleasedOnEveryExit ==
    /\ [](\A t \in Calls : ~InGuard(t) => mutex.holder # t)
    /\ [][\A t \in Calls :
            (InGuard(t) /\ pc'[t] = "done" /\ result'[t].kind \in {"Ok", "RocksDB"})
            => mutex' = [holder |-> 0, poisoned |-> FALSE]]_vars

\* A modify ended with a store error and another modify holds the guard.
C7_Witness ==
    \E a \in Calls, b \in Calls :
        /\ pc[a] = "done" /\ call[a].op = "modify" /\ result[a].kind = "RocksDB"
        /\ InGuard(b) /\ mutex.holder = b

\* C8: get takes no lock: its lookup can run whenever the call has reached
\* it, also while a modify holds the guard, and no step of a get changes the
\* mutex.
C8_GetTakesNoLock ==
    /\ [](\A g \in Calls : pc[g] = "g_lookup" => ENABLED GetLookup(g))
    /\ [][\A g \in Calls :
            (call'[g].op = "get" /\ pc'[g] # pc[g]) => mutex' = mutex]_vars

\* A get returned the record that a modify has put but not yet returned
\* from: its lookup ran while that modify held the guard.
C8_Witness ==
    \E g \in Calls, m \in Calls :
        /\ GetReturnedOk(g)
        /\ pc[m] = "m_return" /\ mutex.holder = m /\ result[m].kind = "Ok"
        /\ entry(m) = entry(g)
        /\ call[m].modifier.kind = "put"
        /\ before[m] # Some(to_bytes(value[m][1]))
        /\ result[g].val = Some(to_bytes(value[m][1]))

\* The bytes a modify stores under its key when it commits, computed from
\* the bytes it found: None when it deletes.
after(m) ==
    LET slot == apply(call[m].modifier, materialize(before[m]))
    IN  IF slot = None THEN None ELSE Some(to_bytes(slot[1]))

\* C9: a get of K whose lookup is answered while a modify of K holds the
\* guard returns the value stored under K before that modify or the value
\* that modify commits, and nothing else.
C9_GetSeesBeforeOrAfter ==
    [][\A g \in Calls, m \in Calls :
         (/\ pc[g] = "g_lookup" /\ pc'[g] = "done" /\ result'[g].kind = "Ok"
          /\ InGuard(m) /\ entry(m) = entry(g))
         => result'[g].val \in {before[m], after(m)}]_vars

\* A get returned the balance 150 that a modify adding 50 to 100 has
\* committed and not yet returned from.
C9_Witness ==
    \E g \in Calls, m \in Calls :
        /\ GetReturnedOk(g)
        /\ pc[m] = "m_return" /\ result[m].kind = "Ok"
        /\ entry(m) = entry(g)
        /\ call[m].modifier = Modifier("add", 50)
        /\ before[m] = Some(to_bytes(Record(100)))
        /\ result[g].val = Some(to_bytes(Record(150)))

\* C10: the slot handed to the modifier holds the record stored under K
\* (empty when K is absent), which is the slot left by the last modify of K
\* that returned; so a modify adding 50 to a stored balance of 100 has stored
\* the balance 150 when its put succeeded.
C10_ModifierGetsStoredRecord ==
    \A t \in Calls :
        /\ pc[t] = "m_modifier" =>
              /\ value[t] = materialize(get_pinned_cf(cf(t), skey(t)))
              /\ settled[entry(t)].known => value[t] = settled[entry(t)].slot
        /\ (/\ pc[t] = "m_return" /\ result[t].kind = "Ok"
            /\ call[t].modifier = Modifier("add", 50)
            /\ before[t] = Some(to_bytes(Record(100))))
           => get_pinned_cf(cf(t), skey(t)) = Some(to_bytes(Record(150)))

\* A modify adding 50 found the balance 100 and has stored 150.
C10_Witness ==
    \E t \in Calls :
        /\ pc[t] = "m_return" /\ result[t].kind = "Ok"
        /\ call[t].modifier = Modifier("add", 50)
        /\ before[t] = Some(to_bytes(Record(100)))
        /\ value[t] = Some(Record(150))
        /\ store[cf(t)][skey(t)] = to_bytes(Record(150))

\* The engine writes a call has issued, failed ones included.
WriteOps == {"put_cf", "delete_cf", "put_cf_err", "delete_cf_err"}

writes(t) == SelectSeq(ops[t], LAMBDA o : o \in WriteOps)

\* C11: a modify whose modifier left the slot as the lookup found it has,
\* when it is about to return Ok, issued exactly one engine write (a put_cf
\* when the key is present, a delete_cf when it is absent), and the store is
\* what it was when the call acquired the guard.
C11_UnchangedSlotIsOneHarmlessWrite ==
    \A t \in Calls :
        (/\ pc[t] = "m_return" /\ result[t].kind = "Ok"
         /\ value[t] = materialize(before[t]))
        => /\ writes(t) = <<IF before[t] # None THEN "put_cf" ELSE "delete_cf">>
           /\ store = snap[t]

\* A modify with the modifier that leaves the slot alone has put the record
\* of a present key back.
C11_Witness ==
    \E t \in Calls :
        /\ pc[t] = "m_return" /\ result[t].kind = "Ok"
        /\ call[t].modifier.kind = "keep"
        /\ before[t] = Some(to_bytes(Record(100)))
        /\ ops[t] = <<"lock", "get_pinned_cf", "modifier", "put_cf">>
        /\ store = snap[t]

\* Two key strings that differ at most in letter case.
SameLetters(a, b) == to_lowercase(a) = to_lowercase(b)

\* C12: with the case-normalized key, calls whose key strings differ only in
\* letter case address the same stored entry, for get and for modify; so the
\* record a returned modify left under "F" is the record an answered get
\* under "f" returns.
C12_CaseInsensitiveKeysShareEntry ==
    \A a \in Calls :
        (call[a].op # "none" /\ call[a].coll = Note) =>
            /\ \A b \in Calls :
                  (call[b].op # "none" /\ call[b].coll = Note
                   /\ SameLetters(asked[a], asked[b]))
                  => entry(a) = entry(b)
            /\ (GetReturnedOk(a) /\ saw[a].known /\ saw[a].slot # None)
               => result[a].val = Some(to_bytes(saw[a].slot[1]))

\* A get under "f" returned the record 300 that a returned modify stored
\* under "F".
C12_Witness ==
    \E m \in Calls, g \in Calls :
        /\ call[m].op = "modify" /\ call[m].coll = Note /\ asked[m] = <<70>>
        /\ call[m].modifier = Modifier("put", 300)
        /\ pc[m] = "done" /\ result[m].kind = "Ok"
        /\ GetReturnedOk(g) /\ call[g].coll = Note /\ asked[g] = <<102>>
        /\ saw[g].known /\ saw[g].slot = Some(Record(300))
        /\ result[g].val = Some(to_bytes(Record(300)))

\* C13: Database::new opens the engine when a store exists at the path and
\* creates it when none exists there, returning a usable handle in both
\* cases; it fails only with the engine's own failure.
C13_OpenOpensOrCreates ==
    db.handle # "none" =>
        \/ db.handle = "open" /\ db.disk = "present"
        \/ db.handle = "error" /\ db.error = "io"

\* C14: get and modify never create a column family: the column families the
\* handle reports and the ones the engine holds are those of the opened
\* handle, whatever calls were made, calls on unregistered collections
\* included.
C14_PartitionsFixedAtOpen ==
    /\ cfs = Partitions
    /\ DOMAIN store = DOMAIN opened

\* A modify against the unregistered collection has returned
\* CollectionNotRegistered and a modify of a registered collection has
\* written; the handle reports the column families it was opened with.
C14_Witness ==
    /\ cfs = Partitions
    /\ \E a \in Calls, b \in Calls :
          /\ call[a].op = "modify" /\ call[a].coll = Orphan /\ pc[a] = "done"
          /\ result[a] = Err("CollectionNotRegistered")
          /\ call[b].op = "modify" /\ call[b].coll = Account /\ pc[b] = "done"
          /\ result[b].kind = "Ok" /\ store # opened

\* The engine operations a call has issued, by kind.
LookupOps == {"get_pinned_cf", "get_pinned_cf_err"}

FailedOps == {"get_pinned_cf_err", "put_cf_err", "delete_cf_err"}

lookups(t) == SelectSeq(ops[t], LAMBDA o : o \in LookupOps)

\* C15: a call issues each engine operation at most once; an engine failure
\* is the last thing the call does and the call returns the store error; a
\* modify whose lookup failed has not invoked the modifier, has issued no
\* put or delete and has left the store as it was at acquisition.
C15_EngineFailureReturnedNotRetried ==
    \A t \in Calls :
        /\ Len(lookups(t)) <= 1
        /\ Len(writes(t)) <= 1
        /\ \A i \in 1..Len(ops[t]) :
              ops[t][i] \in FailedOps
              => /\ i = Len(ops[t])
                 /\ result[t] = Err("RocksDB")
        /\ (call[t].op = "modify" /\ lookups(t) = <<"get_pinned_cf_err">>)
           => /\ ops[t] = <<"lock", "get_pinned_cf_err">>
              /\ store = snap[t]

\* A modify that would have stored 300 is about to return the store error of
\* its failed lookup, and a get has returned the store error of its own.
C15_Witness ==
    \E t \in Calls, g \in Calls :
        /\ pc[t] = "m_return" /\ call[t].modifier = Modifier("put", 300)
        /\ ops[t] = <<"lock", "get_pinned_cf_err">>
        /\ result[t] = Err("RocksDB") /\ store = snap[t]
        /\ call[g].op = "get" /\ pc[g] = "done"
        /\ ops[g] = <<"get_pinned_cf_err">> /\ result[g] = Err("RocksDB")

\* C16: with the engine answering, modifiers returning and the lock handed
\* on, every get and every modify that was called returns (a value or an
\* error); no call waits forever.
C16_EveryCallReturns ==
    \A t \in Calls :
        (pc[t] # "idle") ~> (pc[t] = "done" /\ result[t].kind \in {"Ok", "CollectionNotRegistered", "RocksDB"})

\* Every call was a modify of one collection, so they took the lock in turn,
\* and every one has returned.
C16_Witness ==
    /\ \A t \in Calls : pc[t] = "done" /\ result[t].kind \in {"Ok", "RocksDB"}
    /\ \A t \in Calls : call[t].op = "modify" /\ call[t].coll = Account

\* C17: a modify changes at most the entry of its key in its collection's
\* column family, and a get changes no entry: the store is at every moment
\* the opened store with the commits' changes to their own entries.
C17_ModifyChangesOnlyItsEntry ==
    /\ store = shadow
    /\ \A t \in Calls :
          (pc[t] = "m_return" /\ snap[t] # None)
          => \A e \in Entries \ {entry(t)} :
                /\ e[2] \in DOMAIN store[e[1]] <=> e[2] \in DOMAIN snap[t][e[1]]
                /\ e[2] \in DOMAIN store[e[1]] => store[e[1]][e[2]] = snap[t][e[1]][e[2]]

\* A modify deleted its key from the store while the other key of the column
\* family and the other column family kept their records, next to a get that
\* was answered.
C17_Witness ==
    \E t \in Calls, g \in Calls :
        /\ pc[t] = "m_return" /\ result[t].kind = "Ok" /\ cf(t) = "acct"
        /\ call[t].modifier.kind = "clear" /\ before[t] # None
        /\ skey(t) \notin DOMAIN store["acct"]
        /\ DOMAIN store["acct"] # {} /\ DOMAIN store["note"] # {}
        /\ GetReturnedOk(g)

\* C18: a modify on a collection the handle does not have returns
\* CollectionNotRegistered without taking the lock: it has issued no lock,
\* engine or modifier operation, and it can be made and returns whoever
\* holds the guard, and whether or not the mutex is poisoned.
C18_UnregisteredModifyBeforeLock ==
    \A t \in Calls :
        /\ (call[t].op = "modify" /\ cf_handle(cf(t)) = None)
           => /\ pc[t] = "done"
              /\ result[t] = Err("CollectionNotRegistered")
              /\ ops[t] = <<>>
              /\ value[t] = None
        /\ pc[t] = "idle"
           => ENABLED ModifyResolve(t, Orphan, <<>>, Modifier("put", 300))

\* A modify on the unregistered collection has returned while another call
\* holds the guard, before that call's write.
C18_Witness ==
    \E t \in Calls, h \in Calls :
        /\ mutex.holder = h /\ pc[h] = "m_commit" /\ store = opened
        /\ call[t].op = "modify" /\ call[t].coll = Orphan
        /\ call[t].modifier = Modifier("put", 300)
        /\ pc[t] = "done" /\ result[t] = Err("CollectionNotRegistered")
        /\ ops[t] = <<>>

\* The call's modifier has been invoked and has made its inner call.
entered(t) == "modifier_entered" \in {ops[t][i] : i \in 1..Len(ops[t])}

\* C19: the mutex is not re-entrant.  A call whose modifier calls modify on
\* the same handle never gets past the modifier: the modifier does not
\* return, the call issues no put or delete and does not return normally.
\* A call whose modifier calls get is not held up: the inner lookup can
\* always proceed while the call itself holds the guard, and the call then
\* commits as any other.
C19_LockNotReentrantGetPasses ==
    \A t \in Calls :
        /\ (call[t].modifier = NestedModify /\ entered(t))
           => /\ pc[t] \in {"n_lock", "n_deadlock", "done"}
              /\ pc[t] = "done" => result[t] = Err("Panic")
              /\ \A i \in 1..Len(ops[t]) : ops[t][i] \notin WriteOps \cup {"modifier"}
        /\ (call[t].modifier = NestedGet /\ pc[t] = "n_lookup")
           => /\ mutex.holder = t
              /\ ENABLED NestedGetLookup(t)
        /\ (call[t].modifier = NestedGet /\ pc[t] = "m_return" /\ result[t].kind = "Ok")
           => /\ "modifier" \in {ops[t][i] : i \in 1..Len(ops[t])}
              /\ Len(writes(t)) = 1

\* One call is blocked for good in its modifier's inner lock, still holding
\* the guard; the other, whose modifier called get, ran before it and
\* returned Ok.
C19_Witness ==
    \E a \in Calls, b \in Calls :
        /\ call[a].modifier = NestedModify /\ pc[a] = "n_deadlock" /\ mutex.holder = a
        /\ call[b].modifier = NestedGet /\ pc[b] = "done" /\ result[b].kind = "Ok"

\* C20: once a modifier has panicked, the mutex is poisoned and no modify is
\* or comes inside the guard.  The panicking call has issued the lock, the
\* lookup and the modifier and no put or delete, and the store stays what it
\* was when that call acquired the guard; a modify that comes to the lock
\* afterwards panics there with nothing else done; a get can still be made
\* and its lookup still proceeds.
C20_PoisonStopsModifyNotGet ==
    /\ mutex.poisoned
       => /\ mutex.holder = 0
          /\ \A t \in Calls : ~InGuard(t)
          /\ \E p \in Calls : ops[p] = <<"lock", "get_pinned_cf", "modifier_panic">>
    /\ \A t \in Calls :
          /\ result[t] = Err("Panic")
             => /\ pc[t] = "done"
                /\ mutex.poisoned
                /\ \/ ops[t] = <<"lock_poisoned">>
                   \/ /\ ops[t] = <<"lock", "get_pinned_cf", "modifier_panic">>
                      /\ store = snap[t]
          /\ (mutex.poisoned /\ pc[t] = "g_lookup") => ENABLED GetLookup(t)
          /\ (mutex.poisoned /\ pc[t] = "idle") => ENABLED GetResolve(t, Account, <<70>>)

\* A modifier panicked over a stored record, and a modify that came to the
\* lock afterwards panicked there; the record is still stored.
C20_Witness ==
    \E p \in Calls, m \in Calls :
        /\ mutex.poisoned
        /\ ops[p] = <<"lock", "get_pinned_cf", "modifier_panic">>
        /\ skey(p) \in DOMAIN store[cf(p)]
        /\ call[m].modifier = Modifier("clear", 0) /\ entry(m) = entry(p)
        /\ pc[m] = "done" /\ result[m] = Err("Panic")
        /\ ops[m] = <<"lock_poisoned">>

====
